---- MODULE Spec2Model ----
(***************************************************************************)
(* Video cache & loader (avatar_engines/human_video/video_loader.py) and   *)
(* gloss-to-video resolver (avatar_engines/human_video/gloss_mapper.py);   *)
(* stick engine: gesture library (avatar_engines/stick/loader.py),          *)
(* keyframe interpolator (signs/interpolator.py), generator                *)
(* (avatar_engines/stick/generator.py); video compositor                   *)
(* (avatar_engines/human_video/video_compositor.py); the stick path and    *)
(* the video path of the pipeline (pipeline/process_audio.py).             *)
(*                                                                         *)
(* The cache directory is a map from paths to files.  A path is a pair     *)
(* <<video id, suffix>>: <<7, "mp4">> is cache/7.mp4 and <<7, "">> is      *)
(* cache/7.  Sizes are counted in whole GB, the unit of MAX_CACHE_SIZE_GB. *)
(* Every caller is a small program counter machine over the statements of  *)
(* get_video / download_video; one step is one statement that reads or     *)
(* writes the directory or the network.                                    *)
(***************************************************************************)
EXTENDS Integers, Sequences, FiniteSets, TLC

\* ---------------------------------------------------------------- bounds
NumIds == 3          \* video identifiers 1..NumIds
MaxFileSize == 8     \* largest body a server sends, in GB
MaxClock == 1        \* modification times 0..MaxClock
TimeScale == 2       \* keyframe times are counted in units of 1/TimeScale
MaxDefs == 2         \* gesture definition files in the store
MaxKeyframes == 3    \* keyframes of one gesture
MaxFrames == 3       \* authored frame counts 0..MaxFrames
MaxGlosses == 2      \* glosses of one sequence

\* ------------------------------------------------------ program constants
MAX_RETRIES == 3
MAX_CACHE_SIZE_GB == 10
STICK_FRAMES == 30   \* generate_keypoints(gloss, frames=30, ...) in process_with_stick

Ids == 1..NumIds
\* the callers that share one cache directory (Spec lets one of them run)
Callers == {1, 2}

\* The catalog gives every video one URL: video 1 is on a video-hosting site,
\* the others are direct links.
catalog_url(video_id) == IF video_id = 1 THEN "youtube" ELSE "http"

VARIABLES
    fs,        \* the cache directory: path -> file
    clock,     \* the file system's clock (source of st_mtime)
    yt_dlp_available,  \* the module flag _YT_DLP_AVAILABLE
    pc,        \* caller -> the statement it is at
    frame,     \* caller -> the locals of its running call
    ret,       \* caller -> what its call returned
    obs,       \* caller -> what the call did so far (history, for the properties)
    videos,    \* the catalog's candidate list of the gloss WATER
    query,     \* the gloss the resolver was last asked for
    best,      \* what get_best_video returned for it
    alts,      \* the last get_best_videos_with_alternatives call and its result
    store,     \* the gesture definition files, in the order the glob lists them
    _gestures, \* GestureLoader._gestures: key -> gesture
    lpc,       \* the statement a running reload_gestures is at
    json_files,  \* the files a running _load_all_gestures has still to read
    call,      \* the last call into the stick engine
    out,       \* what that call returned
    run,       \* a stick-path call that runs statement by statement
    wl         \* a running process_with_wlasl call

vars ==
    <<fs, clock, yt_dlp_available, pc, frame, ret, obs, videos, query, best, alts,
      store, _gestures, lpc, json_files, call, out, run, wl>>
loaderVars == <<fs, clock, yt_dlp_available, pc, frame, ret, obs>>
mapperVars == <<videos, query, best, alts>>
stickVars == <<store, _gestures, lpc, json_files, call, out>>
pipelineVars == <<run, wl>>

\* no pipeline call is running
NoRun == [op |-> "none", pc |-> "idle"]
NoWl == [op |-> "none", pc |-> "idle"]

PipelineIdle ==
    /\ run = NoRun
    /\ wl = NoWl

\* ------------------------------------------------------------ file system
Paths == Ids \X {"mp4", ""}
\* full: the file holds the whole body the server sent (it was not cut short)
NoFile == [exists |-> FALSE, size |-> 0, mtime |-> 0, full |-> FALSE]
File(n, t, whole) == [exists |-> TRUE, size |-> n, mtime |-> t, full |-> whole]

\* Path.with_suffix(s): the name with its last suffix replaced by s.
with_suffix(path, s) == <<path[1], s>>

_get_cache_path(video_id) == <<video_id, "mp4">>

\* outtmpl of the extractor: cache_path.with_suffix('').with_suffix('')
outtmpl(cache_path) == with_suffix(with_suffix(cache_path, ""), "")

path_exists(path) == fs[path].exists

is_cached(video_id) == path_exists(_get_cache_path(video_id))

\* cache_dir.glob("*.mp4")
GlobMp4 == {path \in Paths : path[2] = "mp4" /\ fs[path].exists}

RECURSIVE SumSizes(_)
SumSizes(S) ==
    IF S = {} THEN 0
    ELSE LET x == CHOOSE y \in S : TRUE
         IN  fs[x].size + SumSizes(S \ {x})

_get_cache_size_gb == SumSizes(GlobMp4)

\* ------------------------------------------------------------ return values
NoPath == <<0, "">>
Pending == [tag |-> "pending", path |-> NoPath]
RetNone == [tag |-> "None", path |-> NoPath]
Raised == [tag |-> "raised", path |-> NoPath]
RetPath(path) == [tag |-> "path", path |-> path]

\* ------------------------------------------------------------ call state
NoFrame ==
    [video_id |-> 0, url |-> "http", attempt |-> 0, total_size |-> 0,
     downloaded |-> 0, cache_files |-> <<>>, current_size |-> 0]

NoObs ==
    [entry |-> "none", force |-> FALSE, hit |-> FALSE, dispatched |-> FALSE,
     slept |-> 0, over |-> FALSE, swept |-> FALSE,
     removed |-> {}, bad |-> FALSE]

Ticks == {t \in {clock, clock + 1} : t <= MaxClock}

\* 2 ** attempt
RECURSIVE Pow2(_)
Pow2(n) == IF n = 0 THEN 1 ELSE 2 * Pow2(n - 1)

Done(p, value) ==
    /\ pc' = [pc EXCEPT ![p] = "done"]
    /\ ret' = [ret EXCEPT ![p] = value]

Goto(p, label) ==
    /\ pc' = [pc EXCEPT ![p] = label]
    /\ ret' = ret

\* ------------------------------------------------------------ get_video
CallGetVideo(p, video_id, url, force_refresh) ==
    /\ pc[p] = "idle"
    /\ Goto(p, "gv_check")
    /\ frame' = [frame EXCEPT ![p] = [NoFrame EXCEPT !.video_id = video_id, !.url = url]]
    /\ obs' = [obs EXCEPT ![p] = [NoObs EXCEPT !.entry = "get_video",
                                               !.force = force_refresh,
                                               !.hit = is_cached(video_id)]]
    /\ UNCHANGED <<fs, clock, yt_dlp_available, mapperVars, stickVars, pipelineVars>>

\* if not force_refresh and self.is_cached(video_id):
GvCheck(p) ==
    /\ pc[p] = "gv_check"
    /\ IF ~obs[p].force /\ is_cached(frame[p].video_id)
       THEN Goto(p, "gv_local")
       ELSE Goto(p, "dl_check")
    /\ UNCHANGED <<fs, clock, yt_dlp_available, frame, obs, mapperVars, stickVars, pipelineVars>>

\* return self.get_local_path(video_id)
GvLocal(p) ==
    /\ pc[p] = "gv_local"
    /\ LET cache_path == _get_cache_path(frame[p].video_id)
       IN  Done(p, IF path_exists(cache_path) THEN RetPath(cache_path) ELSE RetNone)
    /\ UNCHANGED <<fs, clock, yt_dlp_available, frame, obs, mapperVars, stickVars, pipelineVars>>

\* --------------------------------------------------------- download_video
\* the call is entered: cache_path = self._get_cache_path(video_id)
EnterDownloadVideo(p, video_id, url) ==
    /\ pc[p] = "idle"
    /\ Goto(p, "dl_check")
    /\ frame' = [frame EXCEPT ![p] = [NoFrame EXCEPT !.video_id = video_id, !.url = url]]
    /\ obs' = [obs EXCEPT ![p] = [NoObs EXCEPT !.entry = "download_video",
                                               !.hit = is_cached(video_id)]]

CallDownloadVideo(p, video_id, url) ==
    /\ EnterDownloadVideo(p, video_id, url)
    /\ UNCHANGED <<fs, clock, yt_dlp_available, mapperVars, stickVars, pipelineVars>>

\* if cache_path.exists(): return cache_path
DlCheck(p) ==
    /\ pc[p] = "dl_check"
    /\ LET cache_path == _get_cache_path(frame[p].video_id)
       IN  IF path_exists(cache_path)
           THEN Done(p, RetPath(cache_path))
           ELSE Goto(p, "dl_size")
    /\ UNCHANGED <<fs, clock, yt_dlp_available, frame, obs, mapperVars, stickVars, pipelineVars>>

\* self._get_cache_size_gb() >= MAX_CACHE_SIZE_GB * 0.9
NearLimit(size_gb) == 10 * size_gb >= 9 * MAX_CACHE_SIZE_GB

\* faulty variant: the sweep is handed the 90% mark it was started at
CleanupTarget10_AtMark == 9 * MAX_CACHE_SIZE_GB

\* 10 times the target handed to _cleanup_cache: MAX_CACHE_SIZE_GB * 0.7
CleanupTarget10 == 7 * MAX_CACHE_SIZE_GB

DlSize(p) ==
    /\ pc[p] = "dl_size"
    /\ obs' = [obs EXCEPT ![p].over = 10 * _get_cache_size_gb > 9 * MAX_CACHE_SIZE_GB]
    /\ IF NearLimit(_get_cache_size_gb)
       THEN Goto(p, "cleanup_list")
       ELSE Goto(p, "dispatch")
    /\ UNCHANGED <<fs, clock, yt_dlp_available, frame, mapperVars, stickVars, pipelineVars>>

\* ---------------------------------------------------------- _cleanup_cache
StatEntry(path) == [path |-> path, mtime |-> fs[path].mtime, size |-> fs[path].size]

\* faulty variant: the sort is missing, the listing stays in directory order
IsSortedByMtime_Unsorted(listing) == listing = listing

\* cache_files.sort(key=lambda x: x[1])
IsSortedByMtime(listing) ==
    \A i, j \in 1..Len(listing) : i < j => listing[i].mtime <= listing[j].mtime

\* The listings the glob and the (stable) sort can produce: every order of the
\* *.mp4 files that is ascending in st_mtime.
Listings ==
    LET S == {StatEntry(path) : path \in GlobMp4}
    IN  {l \in [1..Cardinality(S) -> S] :
            /\ \A i, j \in 1..Cardinality(S) : i # j => l[i] # l[j]
            /\ IsSortedByMtime(l)}

RECURSIVE SumListing(_)
SumListing(l) == IF l = <<>> THEN 0 ELSE Head(l).size + SumListing(Tail(l))

CleanupList(p) ==
    /\ pc[p] = "cleanup_list"
    /\ \E l \in Listings :
          frame' = [frame EXCEPT ![p].cache_files = l,
                                 ![p].current_size = SumListing(l)]
    /\ Goto(p, "cleanup_loop")
    /\ UNCHANGED <<fs, clock, yt_dlp_available, obs, mapperVars, stickVars, pipelineVars>>

\* if current_size <= target_size_gb: break
UnderTarget(current_size, target10) == 10 * current_size <= target10

\* one turn of: for file_path, _, file_size in cache_files
CleanupLoop(p) ==
    /\ pc[p] = "cleanup_loop"
    /\ LET f == frame[p] IN
       IF f.cache_files = <<>> \/ UnderTarget(f.current_size, CleanupTarget10)
       THEN /\ Goto(p, "dispatch")
            /\ frame' = [frame EXCEPT ![p].cache_files = <<>>, ![p].current_size = 0]
            /\ obs' = [obs EXCEPT ![p].swept = TRUE]
            /\ fs' = fs
       ELSE LET h == Head(f.cache_files) IN
            /\ Goto(p, "cleanup_loop")
            /\ IF path_exists(h.path)
               THEN \* file_path.unlink(); current_size -= file_size
                    /\ fs' = [fs EXCEPT ![h.path] = NoFile]
                    /\ frame' = [frame EXCEPT ![p].cache_files = Tail(@),
                                              ![p].current_size = @ - h.size]
                    /\ obs' = [obs EXCEPT ![p].removed = @ \cup {h}]
               ELSE \* unlink raises: logged, the loop goes on
                    /\ fs' = fs
                    /\ frame' = [frame EXCEPT ![p].cache_files = Tail(@)]
                    /\ obs' = obs
    /\ UNCHANGED <<clock, yt_dlp_available, mapperVars, stickVars, pipelineVars>>

\* if self._is_youtube_url(video_url): ... else: ...
Dispatch(p) ==
    /\ pc[p] = "dispatch"
    /\ Goto(p, IF frame[p].url = "youtube" THEN "yt_start" ELSE "http_try")
    /\ obs' = [obs EXCEPT ![p].dispatched = TRUE]
    /\ UNCHANGED <<fs, clock, yt_dlp_available, frame, mapperVars, stickVars, pipelineVars>>

\* ------------------------------------------------------------ retry loops
\* time.sleep(2 ** attempt) under: if attempt < MAX_RETRIES - 1
Backoff(attempt) == IF attempt < MAX_RETRIES - 1 THEN Pow2(attempt) ELSE 0

\* The end of one turn of: for attempt in range(MAX_RETRIES), after a wait of
\* `wait` seconds; the loop running out is the function's final: return None.
NextAttempt(p, label, wait, short) ==
    /\ frame' = [frame EXCEPT ![p].attempt = @ + 1]
    /\ obs' = [obs EXCEPT ![p].slept = wait, ![p].bad = short]
    /\ IF frame[p].attempt + 1 < MAX_RETRIES
       THEN Goto(p, label)
       ELSE Done(p, RetNone)

\* except requests.exceptions.RequestException / except Exception
Handler(p, label) == NextAttempt(p, label, Backoff(frame[p].attempt), FALSE)

\* ------------------------------------------------- _download_youtube_video
\* if not _YT_DLP_AVAILABLE: return None
YtStart(p) ==
    /\ pc[p] = "yt_start"
    /\ IF yt_dlp_available THEN Goto(p, "yt_try") ELSE Done(p, RetNone)
    /\ UNCHANGED <<fs, clock, yt_dlp_available, frame, obs, mapperVars, stickVars, pipelineVars>>

\* result = ydl.download([video_url]) == 0: the extractor has written the clip to
\* the file its output template names.  Nothing reads that file's size or time.
YtSuccess(p) ==
    /\ pc[p] = "yt_try"
    /\ LET cache_path == _get_cache_path(frame[p].video_id) IN
       /\ fs' = [fs EXCEPT ![outtmpl(cache_path)] = File(1, 0, TRUE)]
       /\ Done(p, RetPath(cache_path))
    /\ obs' = [obs EXCEPT ![p].slept = 0]
    /\ UNCHANGED <<clock, yt_dlp_available, frame, mapperVars, stickVars, pipelineVars>>

\* result != 0: logged, and the loop goes on
YtNonZero(p) ==
    /\ pc[p] = "yt_try"
    /\ NextAttempt(p, "yt_try", 0, FALSE)
    /\ UNCHANGED <<fs, clock, yt_dlp_available, mapperVars, stickVars, pipelineVars>>

\* ydl.download raises
YtRaises(p) ==
    /\ pc[p] = "yt_try"
    /\ Handler(p, "yt_try")
    /\ UNCHANGED <<fs, clock, yt_dlp_available, mapperVars, stickVars, pipelineVars>>

\* ---------------------------------------------------- _download_http_video
\* requests.get(...) or response.raise_for_status() raises
HttpRequestFails(p) ==
    /\ pc[p] = "http_try"
    /\ Handler(p, "http_try")
    /\ UNCHANGED <<fs, clock, yt_dlp_available, mapperVars, stickVars, pipelineVars>>

\* int(response.headers.get('content-length', 0)) on a header that is no
\* number: ValueError, which no handler of the function catches
HttpBadLength(p) ==
    /\ pc[p] = "http_try"
    /\ Done(p, Raised)
    /\ obs' = [obs EXCEPT ![p].slept = 0, ![p].bad = FALSE]
    /\ UNCHANGED <<fs, clock, yt_dlp_available, frame, mapperVars, stickVars, pipelineVars>>

\* The response arrives (total_size is 0 when no length is declared), then
\* with open(cache_path, 'wb') as f: the file is created, or cut to length 0
HttpOpen(p) ==
    /\ pc[p] = "http_try"
    /\ \E total_size \in 0..MaxFileSize :
          frame' = [frame EXCEPT ![p].total_size = total_size, ![p].downloaded = 0]
    /\ \E t \in Ticks :
          /\ clock' = t
          /\ fs' = [fs EXCEPT ![_get_cache_path(frame[p].video_id)] = File(0, t, FALSE)]
    /\ Goto(p, "http_stream")
    /\ obs' = [obs EXCEPT ![p].slept = 0, ![p].bad = FALSE]
    /\ UNCHANGED <<yt_dlp_available, mapperVars, stickVars, pipelineVars>>

\* for chunk in response.iter_content(...): f.write(chunk).  n bytes arrive; the
\* stream then ends, or breaks (cut) with a RequestException.
HttpStream(p) ==
    /\ pc[p] = "http_stream"
    /\ LET cache_path == _get_cache_path(frame[p].video_id)
           total_size == frame[p].total_size
       IN  \E n \in 0..MaxFileSize, cut \in BOOLEAN, t \in Ticks :
              /\ total_size > 0 => n <= total_size
              /\ cut => (total_size = 0 \/ n < total_size)
              /\ clock' = t
              /\ fs' = IF path_exists(cache_path)
                       THEN [fs EXCEPT ![cache_path] =
                               File(n, t, ~cut /\ (total_size > 0 => n = total_size))]
                       ELSE fs
              /\ IF cut
                 THEN Handler(p, "http_try")
                 ELSE /\ frame' = [frame EXCEPT ![p].downloaded = n]
                      /\ obs' = obs
                      /\ Goto(p, "http_verify")
    /\ UNCHANGED <<yt_dlp_available, mapperVars, stickVars, pipelineVars>>

\* One turn of the chunk loop that is not the last: f.write(chunk) adds n bytes
\* to the open file and the loop goes on.  (HttpStream is the whole loop, or
\* the rest of it.)
HttpChunk(p) ==
    /\ pc[p] = "http_stream"
    /\ LET cache_path == _get_cache_path(frame[p].video_id)
           total_size == frame[p].total_size
           size == fs[cache_path].size
       IN  /\ path_exists(cache_path)
           /\ \E n \in 1..MaxFileSize, t \in Ticks :
                 /\ size + n <= MaxFileSize
                 /\ total_size > 0 => size + n <= total_size
                 /\ clock' = t
                 /\ fs' = [fs EXCEPT ![cache_path] = File(size + n, t, FALSE)]
    /\ UNCHANGED <<yt_dlp_available, pc, frame, ret, obs, mapperVars, stickVars,
                   pipelineVars>>

\* if total_size > 0 and downloaded < total_size
Incomplete(total_size, downloaded) == total_size > 0 /\ downloaded < total_size

HttpVerify(p) ==
    /\ pc[p] = "http_verify"
    /\ LET cache_path == _get_cache_path(frame[p].video_id)
           short == frame[p].downloaded = 0 \/ frame[p].downloaded < frame[p].total_size
       IN  IF Incomplete(frame[p].total_size, frame[p].downloaded)
           THEN IF path_exists(cache_path)
                THEN \* cache_path.unlink(); continue
                     /\ fs' = [fs EXCEPT ![cache_path] = NoFile]
                     /\ NextAttempt(p, "http_try", 0, short)
                ELSE \* unlink raises FileNotFoundError, which nothing catches
                     /\ fs' = fs
                     /\ frame' = frame
                     /\ obs' = [obs EXCEPT ![p].bad = short]
                     /\ Done(p, Raised)
           ELSE /\ fs' = fs
                /\ frame' = frame
                /\ obs' = [obs EXCEPT ![p].bad = short]
                /\ Done(p, RetPath(cache_path))
    /\ UNCHANGED <<clock, yt_dlp_available, mapperVars, stickVars, pipelineVars>>

\* the caller takes the result; its locals are gone
TakeResult(p) ==
    /\ pc[p] = "done"
    /\ pc' = [pc EXCEPT ![p] = "idle"]
    /\ ret' = [ret EXCEPT ![p] = Pending]
    /\ frame' = [frame EXCEPT ![p] = NoFrame]
    /\ obs' = [obs EXCEPT ![p] = NoObs]

Finish(p) ==
    /\ TakeResult(p)
    /\ UNCHANGED <<fs, clock, yt_dlp_available, mapperVars, stickVars, pipelineVars>>

\* ------------------------------------------------------------ gloss_mapper
PREFERRED_SOURCES ==
    <<"signschool", "asldeafined", "valencia-asl", "startasl", "handspeak",
      "signingsavvy", "aslu", "aslpro", "aslsignbank", "aslbrick">>

\* a candidate record that has no 'source' key
NoSource == "<no source>"

\* gloss.upper()
upper(gloss) ==
    CASE gloss = "water" -> "WATER"
      [] gloss = "Water" -> "WATER"
      [] gloss = "xyzzy" -> "XYZZY"
      [] gloss = "hello" -> "HELLO"
      [] gloss = "Hello" -> "HELLO"
      [] gloss = "wave" -> "WAVE"
      [] gloss = "ai" -> "AI"
      [] OTHER -> gloss

\* self._gloss_to_videos: the catalog holds the one gloss WATER
_gloss_to_videos == [gloss \in {"WATER"} |-> videos]

\* self._gloss_to_videos.get(gloss_upper, [])
get_video_metadata(gloss) ==
    IF upper(gloss) \in DOMAIN _gloss_to_videos
    THEN _gloss_to_videos[upper(gloss)]
    ELSE <<>>

\* for video in videos: if video.get('source') == source: return video
RECURSIVE FirstFrom(_, _, _)
FirstFrom(vs, source, i) ==
    IF i > Len(vs) THEN 0
    ELSE IF vs[i].source # NoSource /\ vs[i].source = source THEN i
    ELSE FirstFrom(vs, source, i + 1)

\* for source in PREFERRED_SOURCES: (the inner loop); 0 when the loops find none
RECURSIVE ScanSources(_, _, _)
ScanSources(vs, sources, k) ==
    IF k > Len(sources) THEN 0
    ELSE IF FirstFrom(vs, sources[k], 1) # 0 THEN FirstFrom(vs, sources[k], 1)
    ELSE ScanSources(vs, sources, k + 1)

\* faulty variant: the loops swapped, the first candidate of any preferred source
BestBy_VideoMajor(vs, sources) ==
    LET known == {i \in 1..Len(vs) : \E k \in 1..Len(sources) : sources[k] = vs[i].source}
    IN  IF vs = <<>> THEN <<>>
        ELSE IF known # {} THEN <<vs[CHOOSE i \in known : \A j \in known : i <= j]>>
        ELSE <<vs[1]>>

\* The body of get_best_video over a preference list: <<>> is None, <<v>> is v.
BestBy(vs, sources) ==
    IF vs = <<>> THEN <<>>
    ELSE IF ScanSources(vs, sources, 1) # 0 THEN <<vs[ScanSources(vs, sources, 1)]>>
    ELSE <<vs[1]>>

get_best_video(gloss) == BestBy(get_video_metadata(gloss), PREFERRED_SOURCES)

GetBestVideo(gloss) ==
    /\ query' = gloss
    /\ best' = get_best_video(gloss)
    /\ UNCHANGED <<videos, alts, loaderVars, stickVars, pipelineVars>>

\* source = video.get('source', '')
SourceOf(video) == IF video.source = NoSource THEN "" ELSE video.source

\* PREFERRED_SOURCES.index(source); on ValueError len(PREFERRED_SOURCES) + 1
RECURSIVE IndexFrom(_, _, _)
IndexFrom(sources, source, k) ==
    IF k > Len(sources) THEN Len(sources) + 1
    ELSE IF sources[k] = source THEN k - 1
    ELSE IndexFrom(sources, source, k + 1)

Score(source, sources) == IndexFrom(sources, source, 1)

\* scored_videos.append((score, video)), for video in videos
Scored(vs, sources) ==
    [i \in 1..Len(vs) |-> [score |-> Score(SourceOf(vs[i]), sources), video |-> vs[i]]]

\* scored_videos.sort(key=lambda x: x[0]): list.sort is stable, an entry goes
\* behind every earlier entry whose score is not higher
\* faulty variant: an unstable sort, an entry goes before its equals
RECURSIVE InsertByScore_BeforeEqual(_, _)
InsertByScore_BeforeEqual(x, sorted) ==
    IF sorted = <<>> THEN <<x>>
    ELSE IF Head(sorted).score < x.score
         THEN <<Head(sorted)>> \o InsertByScore_BeforeEqual(x, Tail(sorted))
         ELSE <<x>> \o sorted

RECURSIVE InsertByScore(_, _)
InsertByScore(x, sorted) ==
    IF sorted = <<>> THEN <<x>>
    ELSE IF Head(sorted).score <= x.score
         THEN <<Head(sorted)>> \o InsertByScore(x, Tail(sorted))
         ELSE <<x>> \o sorted

RECURSIVE SortByScore(_)
SortByScore(scored) ==
    IF scored = <<>> THEN <<>>
    ELSE InsertByScore(scored[Len(scored)],
                       SortByScore(SubSeq(scored, 1, Len(scored) - 1)))

\* seq[:n]
Slice(seq, n) ==
    IF n >= 0
    THEN SubSeq(seq, 1, IF n < Len(seq) THEN n ELSE Len(seq))
    ELSE SubSeq(seq, 1, IF Len(seq) + n > 0 THEN Len(seq) + n ELSE 0)

\* faulty variant: the list is cut to max_results before it is sorted
AlternativesBy_SliceFirst(vs, sources, max_results) ==
    LET s == SortByScore(Scored(Slice(vs, max_results), sources))
    IN  [i \in 1..Len(s) |-> s[i].video]

\* The body of get_best_videos_with_alternatives over a preference list.
AlternativesBy(vs, sources, max_results) ==
    IF vs = <<>> THEN <<>>
    ELSE LET s == Slice(SortByScore(Scored(vs, sources)), max_results)
         IN  [i \in 1..Len(s) |-> s[i].video]

get_best_videos_with_alternatives(gloss, max_results) ==
    AlternativesBy(get_video_metadata(gloss), PREFERRED_SOURCES, max_results)

NoAlts == [gloss |-> "", max_results |-> 0, result |-> <<>>]

GetAlternatives(gloss, max_results) ==
    /\ alts' = [gloss |-> gloss, max_results |-> max_results,
                result |-> get_best_videos_with_alternatives(gloss, max_results)]
    /\ UNCHANGED <<videos, query, best, loaderVars, stickVars, pipelineVars>>

\* ========================================================== stick engine
\* A gesture definition (one JSON file) is a record that may lack any of its
\* fields; a keyframe time is a multiple of 1/TimeScale; a pose maps joint
\* names to <<x, y>>, in hundredths.
VALID_JOINTS ==
    {"LEFT_SHOULDER", "LEFT_ELBOW", "LEFT_WRIST",
     "RIGHT_SHOULDER", "RIGHT_ELBOW", "RIGHT_WRIST"}

\* ------------------------------------------------------------ GestureLoader
\* the checks of one keyframe: both fields present, 0 <= time <= 1
KeyframeOk(keyframe) ==
    /\ "time" \in DOMAIN keyframe
    /\ "pose" \in DOMAIN keyframe
    /\ 0 <= keyframe.time
    /\ keyframe.time <= TimeScale

\* gesture["keyframes"].sort(key=lambda k: k["time"]), a stable sort
RECURSIVE InsertByTime(_, _)
InsertByTime(k, sorted) ==
    IF sorted = <<>> THEN <<k>>
    ELSE IF Head(sorted).time <= k.time
         THEN <<Head(sorted)>> \o InsertByTime(k, Tail(sorted))
         ELSE <<k>> \o sorted

RECURSIVE SortByTime(_)
SortByTime(keyframes) ==
    IF keyframes = <<>> THEN <<>>
    ELSE InsertByTime(keyframes[Len(keyframes)],
                      SortByTime(SubSeq(keyframes, 1, Len(keyframes) - 1)))

\* <<>> is None (a ValueError was raised and logged), <<g>> the gesture read
_load_gesture_file(gesture) ==
    IF /\ "name" \in DOMAIN gesture
       /\ "frames" \in DOMAIN gesture
       /\ "keyframes" \in DOMAIN gesture
       /\ gesture.keyframes # <<>>
       /\ \A i \in 1..Len(gesture.keyframes) : KeyframeOk(gesture.keyframes[i])
    THEN <<[gesture EXCEPT !.keyframes = SortByTime(@)]>>
    ELSE <<>>

\* one turn of: for json_file in json_files
LoadOne(index, json_file) ==
    LET gesture == _load_gesture_file(json_file)
    IN  IF gesture # <<>>
        THEN (gesture[1].name :> gesture[1]) @@ index
        ELSE index

\* the whole loop of _load_all_gestures
RECURSIVE LoadAll(_, _)
LoadAll(index, files) ==
    IF files = <<>> THEN index
    ELSE LoadAll(LoadOne(index, Head(files)), Tail(files))

\* self._gestures.get(name.upper()): <<>> is None
get_gesture(name) ==
    IF upper(name) \in DOMAIN _gestures THEN <<_gestures[upper(name)]>> ELSE <<>>

\* name.upper() in self._gestures
gesture_exists(name) == upper(name) \in DOMAIN _gestures

\* a thread calls get_gesture
GetGesture(name) ==
    /\ call' = [op |-> "get", name |-> name, reloading |-> lpc # "idle"]
    /\ out' = get_gesture(name)
    /\ UNCHANGED <<store, _gestures, lpc, json_files, loaderVars, mapperVars, pipelineVars>>

\* a thread calls gesture_exists
GestureExists(name) ==
    /\ call' = [op |-> "exists", name |-> name, reloading |-> lpc # "idle"]
    /\ out' = gesture_exists(name)
    /\ UNCHANGED <<store, _gestures, lpc, json_files, loaderVars, mapperVars, pipelineVars>>

\* reload_gestures: self._gestures = {}, then _load_all_gestures lists the files
ReloadStart ==
    /\ lpc = "idle"
    /\ _gestures' = <<>>
    /\ json_files' = store
    /\ lpc' = "loop"
    /\ UNCHANGED <<store, call, out, loaderVars, mapperVars, pipelineVars>>

\* ... reads the next file and enters its gesture
ReloadFile ==
    /\ lpc = "loop"
    /\ json_files # <<>>
    /\ _gestures' = LoadOne(_gestures, Head(json_files))
    /\ json_files' = Tail(json_files)
    /\ UNCHANGED <<store, lpc, call, out, loaderVars, mapperVars, pipelineVars>>

\* ... and returns
ReloadEnd ==
    /\ lpc = "loop"
    /\ json_files = <<>>
    /\ lpc' = "idle"
    /\ call' = [op |-> "reload", name |-> "", reloading |-> FALSE]
    /\ out' = <<>>
    /\ UNCHANGED <<store, _gestures, json_files, loaderVars, mapperVars, pipelineVars>>

NoCall == [op |-> "none", name |-> "", reloading |-> FALSE]

\* ------------------------------------------------------------- interpolator
\* Numbers are exact fractions <<n, d>>, d > 0, in lowest terms.
RECURSIVE GCD(_, _)
GCD(a, b) == IF b = 0 THEN a ELSE GCD(b, a % b)

Frac(n, d) ==
    LET g == GCD(IF n < 0 THEN 0 - n ELSE n, IF d < 0 THEN 0 - d ELSE d)
    IN  IF d < 0 THEN <<(0 - n) \div g, (0 - d) \div g>> ELSE <<n \div g, d \div g>>

Add(a, b) == Frac(a[1] * b[2] + b[1] * a[2], a[2] * b[2])
Sub(a, b) == Frac(a[1] * b[2] - b[1] * a[2], a[2] * b[2])
Mul(a, b) == Frac(a[1] * b[1], a[2] * b[2])
Div(a, b) == Frac(a[1] * b[2], a[2] * b[1])
Leq(a, b) == a[1] * b[2] <= b[1] * a[2]

Zero == Frac(0, 1)
One == Frac(1, 1)

\* a coordinate pair given in hundredths
Pt(x, y) == <<Frac(x, 100), Frac(y, 100)>>

default_pose ==
    [joint \in VALID_JOINTS |->
        CASE joint = "LEFT_SHOULDER" -> Pt(45, 50)
          [] joint = "LEFT_ELBOW" -> Pt(45, 45)
          [] joint = "LEFT_WRIST" -> Pt(45, 40)
          [] joint = "RIGHT_SHOULDER" -> Pt(55, 50)
          [] joint = "RIGHT_ELBOW" -> Pt(55, 45)
          [] joint = "RIGHT_WRIST" -> Pt(55, 40)]

\* start + (end - start) * t
linear_interpolate(start, end, t) == Add(start, Mul(Sub(end, start), t))

\* keyframe["time"] as a number
TimeOf(keyframe) == Frac(keyframe.time, TimeScale)

\* progress = max(0.0, min(1.0, progress))
Clamp(progress) ==
    LET upto1 == IF Leq(One, progress) THEN One ELSE progress
    IN  IF Leq(upto1, Zero) THEN Zero ELSE upto1

\* for i in range(len(keyframes) - 1): the first i whose pair brackets progress,
\* 0 when the loop ends without one
RECURSIVE ScanFrom(_, _, _)
ScanFrom(keyframes, progress, i) ==
    IF i > Len(keyframes) - 1 THEN 0
    ELSE IF Leq(TimeOf(keyframes[i]), progress) /\ Leq(progress, TimeOf(keyframes[i + 1]))
         THEN i
         ELSE ScanFrom(keyframes, progress, i + 1)

Bracket(prev_kf, next_kf, interpolation_factor) ==
    [prev_kf |-> prev_kf, next_kf |-> next_kf, interpolation_factor |-> interpolation_factor]

\* faulty variant: no clamp and no handling of the two ends
find_surrounding_keyframes_NoEdges(keyframes, progress) ==
    LET i == ScanFrom(keyframes, progress, 1)
        prev_kf == IF i = 0 THEN keyframes[1] ELSE keyframes[i]
        next_kf == IF i = 0 THEN keyframes[Len(keyframes)] ELSE keyframes[i + 1]
        time_range == Sub(TimeOf(next_kf), TimeOf(prev_kf))
    IN  Bracket(prev_kf, next_kf,
                IF time_range = Zero THEN Zero
                ELSE Div(Sub(progress, TimeOf(prev_kf)), time_range))

find_surrounding_keyframes(keyframes, progress0) ==
    LET progress == Clamp(progress0)
        last == keyframes[Len(keyframes)]
    IN  IF Len(keyframes) = 1 THEN Bracket(keyframes[1], keyframes[1], Zero)
        ELSE IF Leq(progress, TimeOf(keyframes[1]))
             THEN Bracket(keyframes[1], keyframes[1], Zero)
        ELSE IF Leq(TimeOf(last), progress) THEN Bracket(last, last, Zero)
        ELSE LET i == ScanFrom(keyframes, progress, 1)
                 prev_kf == IF i = 0 THEN keyframes[1] ELSE keyframes[i]
                 next_kf == IF i = 0 THEN last ELSE keyframes[i + 1]
                 time_range == Sub(TimeOf(next_kf), TimeOf(prev_kf))
             IN  Bracket(prev_kf, next_kf,
                         IF time_range = Zero THEN Zero
                         ELSE Div(Sub(progress, TimeOf(prev_kf)), time_range))

\* faulty variant: a joint missing on one side takes the other side's value
interpolate_pose_NoDefault(prev_pose, next_pose, interpolation_factor) ==
    LET all_joints == DOMAIN prev_pose \cup DOMAIN next_pose
        kept == {joint \in all_joints : joint \in VALID_JOINTS \/ joint \in DOMAIN default_pose}
    IN  [joint \in kept |->
            LET prev_coords == IF joint \in DOMAIN prev_pose THEN prev_pose[joint]
                               ELSE next_pose[joint]
                next_coords == IF joint \in DOMAIN next_pose THEN next_pose[joint]
                               ELSE prev_pose[joint]
            IN  IF prev_coords = next_coords THEN prev_coords
                ELSE <<linear_interpolate(prev_coords[1], next_coords[1], interpolation_factor),
                       linear_interpolate(prev_coords[2], next_coords[2], interpolation_factor)>>]

interpolate_pose(prev_pose, next_pose, interpolation_factor) ==
    LET all_joints == DOMAIN prev_pose \cup DOMAIN next_pose
        kept == {joint \in all_joints : joint \in VALID_JOINTS \/ joint \in DOMAIN default_pose}
    IN  [joint \in kept |->
            LET prev_coords == IF joint \in DOMAIN prev_pose THEN prev_pose[joint]
                               ELSE default_pose[joint]
                next_coords == IF joint \in DOMAIN next_pose THEN next_pose[joint]
                               ELSE default_pose[joint]
            IN  IF prev_coords = next_coords THEN prev_coords
                ELSE <<linear_interpolate(prev_coords[1], next_coords[1], interpolation_factor),
                       linear_interpolate(prev_coords[2], next_coords[2], interpolation_factor)>>]

\* for joint in default_pose.keys(): if joint not in result_pose: ...
FillDefault(result_pose) ==
    [joint \in DOMAIN result_pose \cup DOMAIN default_pose |->
        IF joint \in DOMAIN result_pose THEN result_pose[joint] ELSE default_pose[joint]]

\* {k: tuple(v) for k, v in pose.items()}: a stored pose, in hundredths, as numbers
PoseTuples(pose) == [joint \in DOMAIN pose |-> Pt(pose[joint][1], pose[joint][2])]

\* the pose of a gesture at a progress: the bracket, the blend, the fill
PoseAt(gesture, progress) ==
    LET found == find_surrounding_keyframes(gesture.keyframes, progress)
    IN  FillDefault(interpolate_pose(PoseTuples(found.prev_kf.pose),
                                     PoseTuples(found.next_kf.pose),
                                     found.interpolation_factor))

\* faulty variant: progress runs over the caller's total_frames
ProgressOf_Callers(gesture, f, total_frames) ==
    IF total_frames <= 1 THEN Zero ELSE Frac(f, total_frames - 1)

\* gesture_frames = gesture.get("frames", total_frames); progress over it
ProgressOf(gesture, f, total_frames) ==
    LET gesture_frames == IF "frames" \in DOMAIN gesture THEN gesture.frames
                          ELSE total_frames
    IN  IF gesture_frames <= 1 THEN Zero ELSE Frac(f, gesture_frames - 1)

\* <<>> is None
interpolate_gesture(gesture_name, f, total_frames) ==
    LET gesture == get_gesture(gesture_name)
    IN  IF gesture = <<>> THEN <<>>
        ELSE <<PoseAt(gesture[1], ProgressOf(gesture[1], f, total_frames))>>

InterpolateGesture(gesture_name, f, total_frames) ==
    /\ call' = [op |-> "interpolate", name |-> gesture_name, reloading |-> lpc # "idle",
                f |-> f, total_frames |-> total_frames]
    /\ out' = interpolate_gesture(gesture_name, f, total_frames)
    /\ UNCHANGED <<store, _gestures, lpc, json_files, loaderVars, mapperVars, pipelineVars>>

\* lines 157-178 for a progress handed in directly
InterpolateAt(gesture_name, progress) ==
    /\ get_gesture(gesture_name) # <<>>
    /\ call' = [op |-> "at", name |-> gesture_name, reloading |-> lpc # "idle",
                progress |-> progress]
    /\ out' = <<PoseAt(get_gesture(gesture_name)[1], progress)>>
    /\ UNCHANGED <<store, _gestures, lpc, json_files, loaderVars, mapperVars, pipelineVars>>

\* ---------------------------------------------------------------- generator
\* idle(): default_pose.copy()
idle == default_pose

\* faulty variant: the loop runs over the gesture's authored frame count
FramesOf_Authored(name, frames) ==
    [i \in 1..(IF gesture_exists(name) THEN _gestures[upper(name)].frames ELSE frames) |->
        LET pose == interpolate_gesture(name, i - 1, frames)
        IN  IF pose = <<>> THEN idle ELSE pose[1]]

\* for f in range(frames): pose = interpolate_gesture(name, f, frames), idle
\* when that is None
FramesOf(name, frames) ==
    [i \in 1..frames |->
        LET pose == interpolate_gesture(name, i - 1, frames)
        IN  IF pose = <<>> THEN idle ELSE pose[1]]

\* faulty variant: the short-word test is off by one
FallbackGloss_Below3(gloss) == IF Len(gloss) < 3 THEN "FINGERSPELL" ELSE "UNKNOWN"

\* fallback_gloss: "FINGERSPELL" if len(gloss) <= 3 else "UNKNOWN"
FallbackGloss(gloss) == IF Len(gloss) <= 3 THEN "FINGERSPELL" ELSE "UNKNOWN"

generate_keypoints(gloss, frames, use_fallback) ==
    IF gesture_exists(gloss) THEN FramesOf(gloss, frames)
    ELSE IF use_fallback /\ gesture_exists(FallbackGloss(gloss))
         THEN FramesOf(FallbackGloss(gloss), frames)
         ELSE [i \in 1..frames |-> idle]

GenerateKeypoints(gloss, frames, use_fallback) ==
    /\ call' = [op |-> "generate", name |-> gloss, reloading |-> lpc # "idle",
                frames |-> frames, use_fallback |-> use_fallback]
    /\ out' = generate_keypoints(gloss, frames, use_fallback)
    /\ UNCHANGED <<store, _gestures, lpc, json_files, loaderVars, mapperVars, pipelineVars>>

\* ------------------------------------------------------- process_with_stick
\* the entry of valid_glosses for one gloss
Marker(gloss) ==
    IF gesture_exists(gloss) THEN gloss
    ELSE IF Len(gloss) <= 3 THEN gloss \o "*" ELSE gloss \o "?"

\* faulty variant: a gloss with no gesture of its own is skipped
RECURSIVE StickLoop_SkipMissing(_)
StickLoop_SkipMissing(gloss_sequence) ==
    IF gloss_sequence = <<>> THEN [all_keypoints |-> <<>>, valid_glosses |-> <<>>]
    ELSE LET rest == StickLoop_SkipMissing(Tail(gloss_sequence))
             gloss == Head(gloss_sequence)
         IN  IF gesture_exists(gloss)
             THEN [all_keypoints |-> generate_keypoints(gloss, STICK_FRAMES, TRUE)
                                       \o rest.all_keypoints,
                   valid_glosses |-> <<gloss>> \o rest.valid_glosses]
             ELSE rest

\* for gloss in gloss_sequence: all_keypoints.extend(...); valid_glosses.append(...)
RECURSIVE StickLoop(_)
StickLoop(gloss_sequence) ==
    IF gloss_sequence = <<>> THEN [all_keypoints |-> <<>>, valid_glosses |-> <<>>]
    ELSE LET rest == StickLoop(Tail(gloss_sequence))
             gloss == Head(gloss_sequence)
         IN  [all_keypoints |-> generate_keypoints(gloss, STICK_FRAMES, TRUE)
                                   \o rest.all_keypoints,
              valid_glosses |-> <<Marker(gloss)>> \o rest.valid_glosses]

\* returns (transcription, gloss_sequence, all_keypoints, valid_glosses)
process_with_stick(gloss_sequence) ==
    LET done == StickLoop(gloss_sequence)
    IN  [gloss_sequence |-> gloss_sequence,
         all_keypoints |-> done.all_keypoints,
         valid_glosses |-> done.valid_glosses]

ProcessWithStick(gloss_sequence) ==
    /\ call' = [op |-> "process", name |-> "", reloading |-> lpc # "idle",
                gloss_sequence |-> gloss_sequence]
    /\ out' = process_with_stick(gloss_sequence)
    /\ UNCHANGED <<store, _gestures, lpc, json_files, loaderVars, mapperVars, pipelineVars>>

\* ------------------------------------ generate_keypoints, frame by frame
\* One step is one statement that reads the gesture index; `f` is the loop
\* variable, `found` the history of the interpolator's answers (a pose or None).
CallGenerateKeypoints(gloss, frames, use_fallback) ==
    /\ run.pc = "idle"
    /\ run' = [op |-> "generate", pc |-> "gk_check", gloss |-> gloss, frames |-> frames,
               use_fallback |-> use_fallback, name |-> "", f |-> 0,
               sequence |-> <<>>, found |-> <<>>]
    /\ UNCHANGED <<wl, stickVars, loaderVars, mapperVars>>

\* if gesture_exists(gloss): ... else: if use_fallback: fallback_gloss = ...
GkCheck ==
    /\ run.pc = "gk_check"
    /\ run' = IF gesture_exists(run.gloss)
              THEN [run EXCEPT !.pc = "gk_loop", !.name = run.gloss]
              ELSE IF run.use_fallback
                   THEN [run EXCEPT !.pc = "gk_fallback", !.name = FallbackGloss(run.gloss)]
                   ELSE [run EXCEPT !.pc = "gk_idle"]
    /\ UNCHANGED <<wl, stickVars, loaderVars, mapperVars>>

\* if gesture_exists(fallback_gloss):
GkFallback ==
    /\ run.pc = "gk_fallback"
    /\ run' = [run EXCEPT !.pc = IF gesture_exists(run.name) THEN "gk_loop" ELSE "gk_idle"]
    /\ UNCHANGED <<wl, stickVars, loaderVars, mapperVars>>

\* faulty variant: a frame whose interpolation failed is left out
AfterFrame_DropFailed(sequence, pose) ==
    IF pose = <<>> THEN sequence ELSE Append(sequence, pose[1])

\* if pose is None: pose = idle(f, frames); sequence.append(pose)
AfterFrame(sequence, pose) == Append(sequence, IF pose = <<>> THEN idle ELSE pose[1])

\* one turn of: for f in range(frames): pose = interpolate_gesture(name, f, frames)
GkFrame ==
    /\ run.pc = "gk_loop"
    /\ run.f < run.frames
    /\ LET pose == interpolate_gesture(run.name, run.f, run.frames)
       IN  run' = [run EXCEPT !.f = @ + 1,
                              !.sequence = AfterFrame(@, pose),
                              !.found = Append(@, pose # <<>>)]
    /\ UNCHANGED <<wl, stickVars, loaderVars, mapperVars>>

\* for f in range(frames): sequence.append(idle(f, frames)); return sequence
GkIdleFrames ==
    /\ run.pc = "gk_idle"
    /\ run' = [run EXCEPT !.pc = "done", !.f = run.frames,
                          !.sequence = [i \in 1..run.frames |-> idle]]
    /\ UNCHANGED <<wl, stickVars, loaderVars, mapperVars>>

\* the loop is over: return sequence
GkReturn ==
    /\ run.pc = "gk_loop"
    /\ run.f >= run.frames
    /\ run' = [run EXCEPT !.pc = "done"]
    /\ UNCHANGED <<wl, stickVars, loaderVars, mapperVars>>

\* ------------------------------------ process_with_stick, statement by statement
\* the resource generate_keypoints(gloss, use_fallback=True) takes the frames of
\* a gloss from: the branch of lines 43 and 55 it is in
Resource(gloss) ==
    IF gesture_exists(gloss) THEN "exact"
    ELSE IF FallbackGloss(gloss) = "FINGERSPELL" THEN "fingerspell" ELSE "unknown"

\* `i` is the position of the loop in gloss_sequence, `used` the history of the
\* resources the frames came from.
CallProcessWithStick(gloss_sequence) ==
    /\ run.pc = "idle"
    /\ run' = [op |-> "process", pc |-> "ps_generate", gloss_sequence |-> gloss_sequence,
               i |-> 1, all_keypoints |-> <<>>, valid_glosses |-> <<>>, used |-> <<>>]
    /\ UNCHANGED <<wl, stickVars, loaderVars, mapperVars>>

\* keypoints = generate_keypoints(gloss, frames=30, use_fallback=True);
\* all_keypoints.extend(keypoints)
PsGenerate ==
    /\ run.pc = "ps_generate"
    /\ run.i <= Len(run.gloss_sequence)
    /\ LET gloss == run.gloss_sequence[run.i]
       IN  run' = [run EXCEPT !.pc = "ps_mark",
                              !.all_keypoints =
                                  @ \o generate_keypoints(gloss, STICK_FRAMES, TRUE),
                              !.used = Append(@, Resource(gloss))]
    /\ UNCHANGED <<wl, stickVars, loaderVars, mapperVars>>

\* if gesture_exists(gloss): valid_glosses.append(gloss) else: ...
PsMark ==
    /\ run.pc = "ps_mark"
    /\ run' = [run EXCEPT !.pc = "ps_generate", !.i = @ + 1,
                          !.valid_glosses = Append(@, Marker(run.gloss_sequence[run.i]))]
    /\ UNCHANGED <<wl, stickVars, loaderVars, mapperVars>>

\* return transcription, gloss_sequence, all_keypoints, valid_glosses
PsReturn ==
    /\ run.pc = "ps_generate"
    /\ run.i > Len(run.gloss_sequence)
    /\ run' = [run EXCEPT !.pc = "done"]
    /\ UNCHANGED <<wl, stickVars, loaderVars, mapperVars>>

\* ========================================================== video path
\* ------------------------------------------------------------ VideoCompositor
\* Whether VideoFileClip can read a file is the environment's: `loadable` is the
\* set of paths it reads, `writes` whether concatenation and write_videofile
\* go through.  The output file is written outside the cache directory.
OutputPath == <<0, "composite">>

\* what composite_videos leaves: its return value, the clips (positions in
\* video_paths) that went into the file it wrote, and whether it wrote one
NoOutput == [ret |-> RetNone, clips |-> <<>>, written |-> FALSE]

\* _load_video_clip(video_path) is not None
Loads(video_path, loadable) == path_exists(video_path) /\ video_path \in loadable

\* for i, video_path in enumerate(video_paths): ... clips.append(clip)
RECURSIVE LoadClips(_, _, _)
LoadClips(video_paths, loadable, i) ==
    IF i > Len(video_paths) THEN <<>>
    ELSE IF path_exists(video_paths[i]) /\ Loads(video_paths[i], loadable)
         THEN <<i>> \o LoadClips(video_paths, loadable, i + 1)
         ELSE LoadClips(video_paths, loadable, i + 1)

composite_videos(video_paths, loadable, writes) ==
    IF video_paths = <<>> THEN NoOutput
    ELSE IF Len(video_paths) = 1
         THEN [ret |-> RetPath(video_paths[1]), clips |-> <<>>, written |-> FALSE]
    ELSE LET clips == LoadClips(video_paths, loadable, 1)
         IN  IF clips = <<>> THEN NoOutput
             ELSE IF writes
                  THEN [ret |-> RetPath(OutputPath), clips |-> clips, written |-> TRUE]
                  ELSE \* except Exception: return None
                       [ret |-> RetNone, clips |-> <<>>, written |-> FALSE]

\* a caller composites a list of clips
CompositeVideos(video_paths, loadable, writes) ==
    /\ wl.pc = "idle"
    /\ wl' = [pc |-> "done", op |-> "composite", video_paths |-> video_paths,
              loadable |-> loadable,
              output |-> composite_videos(video_paths, loadable, writes)]
    /\ UNCHANGED <<run, loaderVars, mapperVars, stickVars>>

\* ------------------------------------------------------ process_with_wlasl
\* self._gloss_vocabulary holds the keys of the catalog
wlasl_gloss_exists(gloss) == upper(gloss) \in DOMAIN _gloss_to_videos

\* The mapping loop, from position n on: for gloss in gloss_sequence, a gloss
\* of the catalog with video options gives an entry (gloss, video_options);
\* `at` is its position in gloss_sequence.
RECURSIVE MapGlosses(_, _)
MapGlosses(gloss_sequence, n) ==
    IF n > Len(gloss_sequence) THEN <<>>
    ELSE LET gloss == gloss_sequence[n]
             video_options == get_best_videos_with_alternatives(gloss, 3)
         IN  IF wlasl_gloss_exists(gloss) /\ video_options # <<>>
             THEN <<[gloss |-> gloss, at |-> n, video_options |-> video_options]>>
                     \o MapGlosses(gloss_sequence, n + 1)
             ELSE MapGlosses(gloss_sequence, n + 1)

\* The call is entered and the glosses are mapped; with no candidate at all it
\* raises ValueError.  `k` is the entry of video_candidates the download loop
\* is at, `i` the option it tries, `attempts` the history of the calls to
\* download_video with what each returned, `loadable` the clips a video
\* reader can open.
CallProcessWithWlasl(gloss_sequence, loadable) ==
    /\ wl.pc = "idle"
    /\ LET video_candidates == MapGlosses(gloss_sequence, 1)
       IN  wl' = [pc |-> IF video_candidates = <<>> THEN "done" ELSE "wl_try",
                  op |-> "process", gloss_sequence |-> gloss_sequence,
                  loadable |-> loadable, video_candidates |-> video_candidates,
                  k |-> 1, i |-> 1, video_paths |-> <<>>, downloaded_glosses |-> <<>>,
                  downloaded_at |-> <<>>, attempts |-> <<>>,
                  output |-> IF video_candidates = <<>>
                             THEN [NoOutput EXCEPT !.ret = Raised] ELSE NoOutput]
    /\ UNCHANGED <<run, loaderVars, mapperVars, stickVars>>

\* video_path = loader.download_video(url, video_id)
WlDownload ==
    /\ wl.pc = "wl_try"
    /\ LET video_info == wl.video_candidates[wl.k].video_options[wl.i]
       IN  EnterDownloadVideo(1, video_info.video_id, catalog_url(video_info.video_id))
    /\ wl' = [wl EXCEPT !.pc = "wl_wait"]
    /\ UNCHANGED <<run, fs, clock, yt_dlp_available, mapperVars, stickVars>>

\* where the loops go after download_video has returned `value`: the next
\* option, the next gloss, the compositor, or RuntimeError when no video was
\* downloaded
AfterDownload(w, value) ==
    LET entry == w.video_candidates[w.k]
        got == value.tag = "path"
        last == w.k = Len(w.video_candidates)
        more == ~got /\ w.i < Len(entry.video_options)
        video_paths == IF got THEN Append(w.video_paths, value.path) ELSE w.video_paths
    IN  [w EXCEPT
           !.attempts = Append(@, [k |-> w.k, i |-> w.i, ret |-> value.tag]),
           !.video_paths = video_paths,
           !.downloaded_glosses = IF got THEN Append(@, entry.gloss) ELSE @,
           !.downloaded_at = IF got THEN Append(@, entry.at) ELSE @,
           !.i = IF more THEN w.i + 1 ELSE 1,
           !.k = IF more THEN w.k ELSE w.k + 1,
           !.pc = IF more \/ ~last THEN "wl_try"
                  ELSE IF video_paths = <<>> THEN "done" ELSE "wl_composite",
           !.output = IF ~more /\ last /\ video_paths = <<>>
                      THEN [NoOutput EXCEPT !.ret = Raised] ELSE @]

\* download_video returns (if video_path: ... break), or its exception leaves
\* process_with_wlasl, which has no handler
WlTake ==
    /\ wl.pc = "wl_wait"
    /\ TakeResult(1)
    /\ wl' = IF ret[1] = Raised
             THEN [wl EXCEPT !.pc = "done",
                             !.attempts = Append(@, [k |-> wl.k, i |-> wl.i,
                                                     ret |-> "raised"]),
                             !.output = [NoOutput EXCEPT !.ret = Raised]]
             ELSE AfterDownload(wl, ret[1])
    /\ UNCHANGED <<run, fs, clock, yt_dlp_available, mapperVars, stickVars>>

\* output_path = compositor.composite_videos(video_paths, downloaded_glosses);
\* if not output_path: raise RuntimeError; return ..., output_path,
\* downloaded_glosses
WlComposite ==
    /\ wl.pc = "wl_composite"
    /\ \E writes \in BOOLEAN :
          LET output == composite_videos(wl.video_paths, wl.loadable, writes)
          IN  wl' = [wl EXCEPT !.pc = "done",
                               !.output = IF output.ret = RetNone
                                          THEN [NoOutput EXCEPT !.ret = Raised]
                                          ELSE output]
    /\ UNCHANGED <<run, loaderVars, mapperVars, stickVars>>

\* no gesture files, nothing loaded
StickIdle ==
    /\ store = <<>>
    /\ _gestures = <<>>
    /\ lpc = "idle"
    /\ json_files = <<>>
    /\ call = NoCall
    /\ out = <<>>

\* ------------------------------------------------------------ the loader
LoaderInit ==
    /\ fs = [path \in Paths |-> NoFile]
    /\ clock = 0
    /\ yt_dlp_available \in BOOLEAN
    /\ pc = [p \in Callers |-> "idle"]
    /\ frame = [p \in Callers |-> NoFrame]
    /\ ret = [p \in Callers |-> Pending]
    /\ obs = [p \in Callers |-> NoObs]

MapperIdle ==
    /\ videos = <<>>
    /\ query = ""
    /\ best = <<>>
    /\ alts = NoAlts

Init == LoaderInit /\ MapperIdle /\ StickIdle /\ PipelineIdle

Step(p) ==
    \/ \E video_id \in Ids, force_refresh \in BOOLEAN :
          CallGetVideo(p, video_id, catalog_url(video_id), force_refresh)
    \/ \E video_id \in Ids : CallDownloadVideo(p, video_id, catalog_url(video_id))
    \/ GvCheck(p)
    \/ GvLocal(p)
    \/ DlCheck(p)
    \/ DlSize(p)
    \/ CleanupList(p)
    \/ CleanupLoop(p)
    \/ Dispatch(p)
    \/ YtStart(p)
    \/ YtSuccess(p)
    \/ YtNonZero(p)
    \/ YtRaises(p)
    \/ HttpRequestFails(p)
    \/ HttpBadLength(p)
    \/ HttpOpen(p)
    \/ HttpStream(p)
    \/ HttpVerify(p)
    \/ Finish(p)

\* One request at a time: a single caller uses the loader.
Next == Step(1)

Spec == Init /\ [][Next]_vars

\* ------------------------------------------------- the sweep, from any cache
\* A cache directory left by earlier runs: every direct-link video is absent, or
\* cached as a whole or a cut-short file of any size and any modification time.
CacheFiles ==
    {NoFile} \cup {File(n, t, whole) : n \in 0..MaxFileSize, t \in 0..MaxClock,
                                       whole \in BOOLEAN}

DirectPaths == {path \in Paths : path[2] = "mp4" /\ catalog_url(path[1]) = "http"}

SweepInit ==
    /\ PipelineIdle
    /\ \E d \in [DirectPaths -> CacheFiles] :
          fs = [path \in Paths |-> IF path \in DirectPaths THEN d[path] ELSE NoFile]
    /\ clock = MaxClock
    /\ yt_dlp_available = TRUE
    /\ pc = [p \in Callers |-> "idle"]
    /\ frame = [p \in Callers |-> NoFrame]
    /\ ret = [p \in Callers |-> Pending]
    /\ obs = [p \in Callers |-> NoObs]
    /\ MapperIdle
    /\ StickIdle

\* download_video up to the point where the download itself starts
SweepNext ==
    \/ \E video_id \in Ids : CallDownloadVideo(1, video_id, catalog_url(video_id))
    \/ DlCheck(1)
    \/ DlSize(1)
    \/ CleanupList(1)
    \/ CleanupLoop(1)
    \/ Dispatch(1)
    \/ Finish(1)

SweepSpec == SweepInit /\ [][SweepNext]_vars

\* ================================================================ properties
CachePathOf(p) == _get_cache_path(frame[p].video_id)

\* C1: get_video returns the cached path with no download when the file is
\* cached and force_refresh is false; in every other case, force_refresh on a
\* cached id included, the call goes on to download.
C1_HitOrDownload ==
    \A p \in Callers :
       (pc[p] = "done" /\ obs[p].entry = "get_video") =>
          IF obs[p].hit /\ ~obs[p].force
          THEN ret[p] = RetPath(CachePathOf(p)) /\ ~obs[p].dispatched
          ELSE obs[p].dispatched

\* C2: when a call returns a path, a file exists at exactly that path at the
\* moment of return, whichever download protocol produced it.
C2_ReturnedPathExists ==
    \A p \in Callers :
       (pc[p] = "done" /\ ret[p].tag = "path") => path_exists(ret[p].path)

\* C3: after any sequence of download attempts (no attempt being in the middle
\* of writing or verifying its file), every identifier that is_cached reports
\* as cached maps to a file holding a complete download; a failed attempt
\* leaves no cut-short file behind.
C3_NoPartialEntry ==
    (\A p \in Callers : pc[p] \notin {"http_stream", "http_verify"}) =>
       \A video_id \in Ids :
          is_cached(video_id) => fs[_get_cache_path(video_id)].full

\* C4: a download ends after at most MAX_RETRIES attempts, and a call whose
\* attempts all fail returns None to its caller: it never raises.
C4_NoneNotRaise ==
    \A p \in Callers :
       /\ pc[p] \in {"http_try", "http_stream", "http_verify", "yt_try"} =>
             frame[p].attempt < MAX_RETRIES
       /\ pc[p] = "done" => ret[p] # Raised

\* C5: every attempt after the first is preceded by a backoff wait of
\* 2^(attempt - 1) seconds (1, then 2) however the attempt before it failed,
\* and no wait follows the last attempt.
C5_BackoffBetweenAttempts ==
    \A p \in Callers :
       /\ (pc[p] \in {"http_try", "yt_try"} /\ frame[p].attempt > 0) =>
             obs[p].slept = Pow2(frame[p].attempt - 1)
       /\ pc[p] = "done" => obs[p].slept = 0

\* C6: a direct HTTP attempt that ends short of the declared length, or with no
\* bytes at all, never makes the call return a path, and its file is deleted.
C6_ShortIsFailure ==
    \A p \in Callers :
       obs[p].bad =>
          /\ ~(pc[p] = "done" /\ ret[p].tag = "path")
          /\ pc[p] \in {"http_try", "done"} => ~path_exists(CachePathOf(p))

C9_CacheBounded == _get_cache_size_gb <= MAX_CACHE_SIZE_GB

\* ------------------------------------------------ the resolver, any catalog
MaxCands == 3        \* candidates of one gloss

SourcePool == {"signschool", "startasl", "handspeak", "youtube-asl", NoSource}
Glosses == {"WATER", "water", "Water", "XYZZY"}

\* every candidate list of up to MaxCands entries; video_id is the catalog position
CandidateLists ==
    UNION {{[i \in 1..n |-> [source |-> src[i], video_id |-> i]] :
               src \in [1..n -> SourcePool]} : n \in 0..MaxCands}

RankInit ==
    /\ PipelineIdle
    /\ LoaderInit
    /\ yt_dlp_available = TRUE
    /\ videos \in CandidateLists
    /\ query = ""
    /\ best = <<>>
    /\ alts = NoAlts
    /\ StickIdle

RankNext ==
    \/ \E gloss \in Glosses : GetBestVideo(gloss)
    \/ \E gloss \in Glosses, max_results \in 0..(MaxCands + 1) :
          GetAlternatives(gloss, max_results)

RankSpec == RankInit /\ [][RankNext]_vars

\* index of a source in a preference list, Len + 1 when it is not in it
RankIn(source, sources) ==
    IF \E k \in 1..Len(sources) : sources[k] = source
    THEN CHOOSE k \in 1..Len(sources) :
            sources[k] = source /\ \A j \in 1..(k - 1) : sources[j] # source
    ELSE Len(sources) + 1

\* the preference order and the candidates of the specification's example
ExampleOrder == <<"signschool", "handspeak", "startasl">>
ExampleWater ==
    <<[source |-> "startasl", video_id |-> 1], [source |-> "handspeak", video_id |-> 2]>>

\* C10: for a gloss with candidates, get_best_video returns the candidate whose
\* source has the lowest index in the preference list, the first in catalog
\* order among those of that source, and the first catalog entry when no
\* candidate's source is in the list; [startasl, handspeak] under the order
\* [signschool, handspeak, startasl] gives the handspeak entry.
C10_BestIsLowestRank ==
    /\ (query # "" /\ upper(query) = "WATER" /\ videos # <<>>) =>
          \E i \in 1..Len(videos) :
             /\ best = <<videos[i]>>
             /\ LET r == RankIn(videos[i].source, PREFERRED_SOURCES)
                    unranked == Len(PREFERRED_SOURCES) + 1
                IN  /\ \A j \in 1..Len(videos) :
                          RankIn(videos[j].source, PREFERRED_SOURCES) >= r
                    /\ \A j \in 1..(i - 1) :
                          RankIn(videos[j].source, PREFERRED_SOURCES) > r
                             \/ r = unranked
                    /\ r = unranked => i = 1
    /\ BestBy(ExampleWater, ExampleOrder) = <<ExampleWater[2]>>

C10_Witness ==
    /\ query = "water"
    /\ Len(videos) = 3
    /\ videos[1].source = "youtube-asl"
    /\ videos[2].source = "handspeak"
    /\ videos[3].source = "handspeak"
    /\ best = <<videos[2]>>

\* C11: get_best_videos_with_alternatives(gloss, max_results) returns
\* min(max_results, number of candidates) distinct candidates of the gloss, in
\* non-decreasing preference rank of their source (unranked sources last, equal
\* ranks in catalog order), and no candidate it leaves out ranks strictly
\* better than one it returns.
C11_AlternativesRanked ==
    alts.gloss # "" =>
       LET result == alts.result
           candidates == IF upper(alts.gloss) = "WATER" THEN videos ELSE <<>>
           n == Len(candidates)
           rank(video) == RankIn(video.source, PREFERRED_SOURCES)
       IN  /\ Len(result) = IF alts.max_results < n THEN alts.max_results ELSE n
           /\ \A i \in 1..Len(result) : \E j \in 1..n : result[i] = candidates[j]
           /\ \A i, k \in 1..Len(result) :
                 i < k =>
                    /\ result[i] # result[k]
                    /\ rank(result[i]) <= rank(result[k])
                    /\ rank(result[i]) = rank(result[k]) =>
                          result[i].video_id < result[k].video_id
           /\ \A j \in 1..n :
                 (\A i \in 1..Len(result) : result[i] # candidates[j]) =>
                    \A i \in 1..Len(result) : rank(candidates[j]) >= rank(result[i])

C11_Witness ==
    /\ alts.gloss = "Water"
    /\ alts.max_results = 2
    /\ Len(videos) = 3
    /\ videos[1].source = "youtube-asl"
    /\ videos[2].source = "handspeak"
    /\ videos[3].source = "signschool"
    /\ alts.result = <<videos[3], videos[2]>>

\* C30: for every gloss with at least one candidate and every max_results >= 1,
\* the first entry of get_best_videos_with_alternatives(gloss, max_results) is
\* the candidate get_best_video(gloss) returns, candidates with a missing or
\* unranked source included.
C30_RankingsAgree ==
    (/\ query # ""
     /\ alts.gloss # ""
     /\ upper(query) = upper(alts.gloss)
     /\ get_video_metadata(query) # <<>>
     /\ alts.max_results >= 1) =>
       /\ best # <<>>
       /\ alts.result # <<>>
       /\ alts.result[1] = best[1]

\* two candidates of the best-ranked source behind one with no source at all
C30_Witness ==
    /\ query = "WATER"
    /\ alts.gloss = "water"
    /\ alts.max_results = 1
    /\ Len(videos) = 3
    /\ videos[1].source = NoSource
    /\ videos[2].source = "handspeak"
    /\ videos[3].source = "handspeak"
    /\ best = <<videos[2]>>
    /\ alts.result = <<videos[2]>>

\* ------------------------------------------- the gesture library, any store
WristAt(x) == "RIGHT_WRIST" :> <<x, 40>>
Keyframe(t, pose) == [time |-> t, pose |-> pose]

\* keyframe lists of a file: none, in order, out of order, a time past 1, a
\* time before 0
KeyframeLists ==
    {<<>>,
     <<Keyframe(0, WristAt(55)), Keyframe(TimeScale, WristAt(65))>>,
     <<Keyframe(TimeScale, WristAt(65)), Keyframe(0, WristAt(55))>>,
     <<Keyframe(0, WristAt(55)), Keyframe(TimeScale + 1, WristAt(65))>>,
     <<Keyframe(0 - 1, WristAt(55)), Keyframe(TimeScale, WristAt(65))>>}

StoreNames == {"HELLO", "hello", "", "WAVE"}
LookupNames == {"HELLO", "hello", "Hello", "WAVE", "wave", ""}

\* the files a store can hold, two of them lacking a required field
Definitions ==
    {[name |-> name, frames |-> 30, keyframes |-> keyframes] :
        name \in StoreNames, keyframes \in KeyframeLists}
    \cup {[frames |-> 30, keyframes |-> <<Keyframe(0, WristAt(55))>>],
          [name |-> "WAVE", keyframes |-> <<Keyframe(0, WristAt(55))>>]}

Stores == UNION {[1..n -> Definitions] : n \in 0..MaxDefs}

\* the state GestureLoader() leaves: the index loaded from the store
LibraryInit ==
    /\ PipelineIdle
    /\ LoaderInit
    /\ yt_dlp_available = TRUE
    /\ MapperIdle
    /\ store \in Stores
    /\ _gestures = LoadAll(<<>>, store)
    /\ lpc = "idle"
    /\ json_files = <<>>
    /\ call = NoCall
    /\ out = <<>>

\* readers run while a reload is under way
LibraryNext ==
    \/ \E name \in LookupNames : GetGesture(name)
    \/ \E name \in LookupNames : GestureExists(name)
    \/ ReloadStart
    \/ ReloadFile
    \/ ReloadEnd

LibrarySpec == LibraryInit /\ [][LibraryNext]_vars

\* the validation the library is to apply: a non-empty name, a frame count, a
\* non-empty keyframe list, every keyframe with a pose and a time in [0,1]
PassesValidation(definition) ==
    /\ {"name", "frames", "keyframes"} \subseteq DOMAIN definition
    /\ definition.name # ""
    /\ definition.keyframes # <<>>
    /\ \A i \in 1..Len(definition.keyframes) :
          /\ {"time", "pose"} \subseteq DOMAIN definition.keyframes[i]
          /\ 0 <= definition.keyframes[i].time
          /\ definition.keyframes[i].time <= TimeScale

\* C12: with no reload under way, for every definition of the store that
\* passes validation with name N, and every M equal to N ignoring letter case,
\* get(M) returns a gesture of that name and exists(M) is true, whatever the
\* case in which N is written in the store.
C12_LookupIgnoresCase ==
    (call.op \in {"get", "exists"} /\ ~call.reloading) =>
       \A i \in 1..Len(store) :
          (PassesValidation(store[i]) /\ upper(store[i].name) = upper(call.name)) =>
             IF call.op = "exists"
             THEN out = TRUE
             ELSE out # <<>> /\ upper(out[1].name) = upper(call.name)

\* C13: when a load has finished, the index holds exactly the definitions of
\* the store that pass validation: no entry has an empty name, an empty
\* keyframe list or a keyframe time outside [0,1], every entry is a definition
\* of the store, and every valid definition has its entry wherever it comes in
\* the load order.
C13_IndexIsValidStore ==
    (call.op = "reload" /\ lpc = "idle") =>
       /\ \A key \in DOMAIN _gestures :
             /\ PassesValidation(_gestures[key])
             /\ \E i \in 1..Len(store) :
                   "name" \in DOMAIN store[i] /\ store[i].name = _gestures[key].name
       /\ \A i \in 1..Len(store) :
             PassesValidation(store[i]) =>
                \E key \in DOMAIN _gestures : _gestures[key].name = store[i].name

\* C14: a gesture that is in the index both before and after a reload is found
\* by every get and exists, also by one made while the reload is under way.
C14_ReloadIsAtomic ==
    (call.op \in {"get", "exists"}
        /\ upper(call.name) \in DOMAIN LoadAll(<<>>, store)) =>
       IF call.op = "exists" THEN out = TRUE ELSE out # <<>>

\* ------------------------------------------- the interpolator, any gesture
\* poses of the keyframes: a wrist at its default place, two joints moved, a
\* joint the engine does not know
PosePool ==
    {"RIGHT_WRIST" :> <<55, 40>>,
     "RIGHT_WRIST" :> <<65, 40>> @@ "LEFT_WRIST" :> <<35, 30>>,
     "LEFT_WRIST" :> <<35, 30>> @@ "NOSE" :> <<50, 10>>}

KeyframePool == {Keyframe(t, pose) : t \in 0..TimeScale, pose \in PosePool}

\* keyframe lists as the loader leaves them: not empty, ascending in time
SortedKeyframeLists ==
    UNION {{keyframes \in [1..n -> KeyframePool] :
               \A i \in 1..(n - 1) : keyframes[i].time <= keyframes[i + 1].time} :
           n \in 1..MaxKeyframes}

\* progress values handed in directly: the quarter .. steps from below 0 to past 1
ProgressPool == {Frac(n, 2 * TimeScale) : n \in (0 - 2)..(2 * TimeScale + 2)}

PoseInit ==
    /\ PipelineIdle
    /\ LoaderInit
    /\ yt_dlp_available = TRUE
    /\ MapperIdle
    /\ \E frames \in 0..MaxFrames, keyframes \in SortedKeyframeLists :
          store = <<[name |-> "HELLO", frames |-> frames, keyframes |-> keyframes]>>
    /\ _gestures = LoadAll(<<>>, store)
    /\ lpc = "idle"
    /\ json_files = <<>>
    /\ call = NoCall
    /\ out = <<>>

\* The functions are pure: one call is made on the gesture drawn.
PoseNext ==
    \/ /\ call = NoCall
       /\ \E f \in 0..(MaxFrames + 1), total_frames \in {0, MaxFrames + 1} :
             InterpolateGesture("hello", f, total_frames)
    \/ /\ call = NoCall
       /\ \E progress \in ProgressPool : InterpolateAt("hello", progress)

PoseSpec == PoseInit /\ [][PoseNext]_vars

\* the gesture the last call was about
CalledGesture == _gestures[upper(call.name)]

\* a keyframe's pose over the known joints, absent joints from the default pose
KeyPose(keyframe) ==
    [joint \in VALID_JOINTS |->
        IF joint \in DOMAIN keyframe.pose
        THEN Pt(keyframe.pose[joint][1], keyframe.pose[joint][2])
        ELSE default_pose[joint]]

\* C15: interpolate_gesture(G, f, total_frames) is the pose at progress
\* f / (G's authored frame count - 1), 0 when that count is at most 1, and is
\* the same pose for every value of total_frames.
C15_ProgressFromAuthoredCount ==
    call.op = "interpolate" =>
       LET authored == CalledGesture.frames
           progress == IF authored <= 1 THEN Zero ELSE Frac(call.f, authored - 1)
       IN  /\ out = <<PoseAt(CalledGesture, progress)>>
           /\ \A total_frames \in 0..(MaxFrames + 1) :
                 interpolate_gesture(call.name, call.f, total_frames) = out

C15_Witness ==
    /\ call.op = "interpolate"
    /\ CalledGesture.frames = 3
    /\ call.f = 1
    /\ call.total_frames = MaxFrames + 1
    /\ Len(CalledGesture.keyframes) = 2
    /\ CalledGesture.keyframes[1] = Keyframe(0, "RIGHT_WRIST" :> <<55, 40>>)
    /\ CalledGesture.keyframes[2].time = TimeScale
    /\ "RIGHT_WRIST" \in DOMAIN CalledGesture.keyframes[2].pose
    /\ out[1]["RIGHT_WRIST"] = Pt(60, 40)

AnsweringKeyframe(keyframes, t) ==
    IF t = TimeOf(keyframes[1]) THEN 1
    ELSE IF t = TimeOf(keyframes[Len(keyframes)]) THEN Len(keyframes)
    ELSE CHOOSE k \in 1..Len(keyframes) :
            /\ TimeOf(keyframes[k]) = t
            /\ \A j \in 1..(k - 1) : TimeOf(keyframes[j]) # t

Nearest(progress) ==
    IF Leq(progress, Zero) THEN Zero ELSE IF Leq(One, progress) THEN One ELSE progress

\* C17: for a progress outside [0,1] the interpolator gives the keyframe pair,
\* the factor and the pose it gives for the nearest boundary, 1 for a progress
\* above 1 and 0 for one below 0; so every frame index at or past the authored
\* frame count - 1 gives the pose of the last authored frame.
C17_ClampedOutsideUnit ==
    /\ (call.op = "at" /\ call.progress # Nearest(call.progress)) =>
          /\ find_surrounding_keyframes(CalledGesture.keyframes, call.progress)
                = find_surrounding_keyframes(CalledGesture.keyframes, Nearest(call.progress))
          /\ out = <<PoseAt(CalledGesture, Nearest(call.progress))>>
    /\ (call.op = "interpolate" /\ CalledGesture.frames >= 1
           /\ call.f >= CalledGesture.frames - 1) =>
          out = interpolate_gesture(call.name, CalledGesture.frames - 1, call.total_frames)

C17_Witness ==
    /\ call.op = "at"
    /\ call.progress = Frac(3, 2)
    /\ Len(CalledGesture.keyframes) = 3
    /\ CalledGesture.keyframes[1].time = 0
    /\ CalledGesture.keyframes[3].time = 1
    /\ CalledGesture.keyframes[3].pose # CalledGesture.keyframes[1].pose
    /\ CalledGesture.keyframes[3].pose # CalledGesture.keyframes[2].pose
    /\ out = <<KeyPose(CalledGesture.keyframes[3])>>

\* ----------------------------------------------- the generator, any library
\* gesture files: HELLO as in the specification's example, a short word, and
\* the two placeholders, each with a wrist position of its own
SamplePool ==
    {[name |-> "HELLO", frames |-> STICK_FRAMES,
      keyframes |-> <<Keyframe(0, WristAt(55)), Keyframe(TimeScale, WristAt(65))>>],
     [name |-> "CAT", frames |-> 2, keyframes |-> <<Keyframe(0, WristAt(75))>>],
     [name |-> "FINGERSPELL", frames |-> STICK_FRAMES,
      keyframes |-> <<Keyframe(0, WristAt(50)), Keyframe(TimeScale, WristAt(60))>>],
     [name |-> "UNKNOWN", frames |-> STICK_FRAMES,
      keyframes |-> <<Keyframe(0, WristAt(70))>>]}

SampleStores ==
    UNION {{files \in [1..n -> SamplePool] :
               \A i, j \in 1..n : i # j => files[i].name # files[j].name} :
           n \in 0..MaxDefs}

GlossPool == {"HELLO", "hello", "AI", "CAT", "LOVE", "XYZZY", "UNKNOWN"}

GlossSequences == UNION {[1..n -> GlossPool] : n \in 0..MaxGlosses}

GenInit ==
    /\ PipelineIdle
    /\ LoaderInit
    /\ yt_dlp_available = TRUE
    /\ MapperIdle
    /\ store \in SampleStores
    /\ _gestures = LoadAll(<<>>, store)
    /\ lpc = "idle"
    /\ json_files = <<>>
    /\ call = NoCall
    /\ out = <<>>

\* One request at a time: one call is made on the library drawn.
GenNext ==
    \/ /\ call = NoCall
       /\ \E gloss \in GlossPool, frames \in 0..(MaxFrames + 1), use_fallback \in BOOLEAN :
             GenerateKeypoints(gloss, frames, use_fallback)
    \/ /\ call = NoCall
       /\ \E gloss_sequence \in GlossSequences : ProcessWithStick(gloss_sequence)

GenSpec == GenInit /\ [][GenNext]_vars

\* the frames interpolated from the gesture indexed under a key
FramesFrom(key, frames) ==
    [i \in 1..frames |->
        LET authored == _gestures[key].frames
        IN  PoseAt(_gestures[key],
                   IF authored <= 1 THEN Zero ELSE Frac(i - 1, authored - 1))]

\* the frames the three tiers give a gloss
TierFrames(gloss, frames) ==
    LET placeholder == IF Len(gloss) <= 3 THEN "FINGERSPELL" ELSE "UNKNOWN"
    IN  IF upper(gloss) \in DOMAIN _gestures THEN FramesFrom(upper(gloss), frames)
        ELSE IF placeholder \in DOMAIN _gestures THEN FramesFrom(placeholder, frames)
        ELSE [i \in 1..frames |-> default_pose]

\* C18: generate_keypoints(gloss, frames) returns exactly `frames` poses,
\* whether the gloss has its own gesture, falls back to a placeholder or falls
\* back to idle.
C18_ExactlyFramesPoses ==
    call.op = "generate" => (DOMAIN out = 1..call.frames /\ Len(out) = call.frames)

C18_Witness ==
    /\ call.op = "generate"
    /\ call.name = "AI"
    /\ call.frames = MaxFrames + 1
    /\ "FINGERSPELL" \in DOMAIN _gestures
    /\ Len(out) = MaxFrames + 1
    /\ out[1]["RIGHT_WRIST"] = Pt(50, 40)

\* C19: with the fallback in use, the frames are those of the gloss's own
\* gesture when the library has it; otherwise those of FINGERSPELL for a gloss
\* of at most 3 characters and of UNKNOWN for a longer one; and every frame is
\* the idle (default) pose only when that placeholder is not in the library
\* either.
C19_ThreeTiersInOrder ==
    (call.op = "generate" /\ call.use_fallback) =>
       out = TierFrames(call.name, call.frames)

C19_Witness ==
    /\ call.op = "generate"
    /\ call.use_fallback
    /\ call.name = "CAT"
    /\ call.frames > 1
    /\ DOMAIN _gestures = {"FINGERSPELL", "UNKNOWN"}
    /\ out[1]["RIGHT_WRIST"] = Pt(50, 40)
    /\ out[1] # default_pose

\* C20: for a gloss sequence of length n the stick path returns 30 * n poses,
\* poses 30*i .. 30*i+29 being the frames of the i-th gloss, and a marker list
\* of length n whose i-th entry is the gloss itself when it has its own gesture
\* (exact), the gloss with "*" when it has none and at most 3 characters
\* (fingerspelled), and the gloss with "?" otherwise (unknown).
C20_StickOutputParallel ==
    call.op = "process" =>
       LET n == Len(call.gloss_sequence) IN
       /\ Len(out.all_keypoints) = 30 * n
       /\ Len(out.valid_glosses) = n
       /\ \A i \in 1..n :
             LET gloss == call.gloss_sequence[i] IN
             /\ SubSeq(out.all_keypoints, 30 * (i - 1) + 1, 30 * i) = TierFrames(gloss, 30)
             /\ out.valid_glosses[i] =
                   IF upper(gloss) \in DOMAIN _gestures THEN gloss
                   ELSE IF Len(gloss) <= 3 THEN gloss \o "*" ELSE gloss \o "?"

\* the specification's example: [HELLO, XYZZY] with only HELLO defined
C20_Witness ==
    /\ call.op = "process"
    /\ DOMAIN _gestures = {"HELLO"}
    /\ call.gloss_sequence = <<"HELLO", "XYZZY">>
    /\ out.valid_glosses = <<"HELLO", "XYZZY?">>
    /\ Len(out.all_keypoints) = 60
    /\ out.all_keypoints[1]["RIGHT_WRIST"] = Pt(55, 40)
    /\ out.all_keypoints[30]["RIGHT_WRIST"] = Pt(65, 40)
    /\ \A i \in 31..60 : out.all_keypoints[i] = default_pose

\* --------------------------- the stick path while the library is reloaded
\* process_with_stick runs on a library some other thread may reload.
MarkerNext ==
    \/ \E gloss_sequence \in GlossSequences : CallProcessWithStick(gloss_sequence)
    \/ PsGenerate
    \/ PsMark
    \/ PsReturn
    \/ ReloadStart
    \/ ReloadFile
    \/ ReloadEnd

MarkerSpec == GenInit /\ [][MarkerNext]_vars

\* what a validity marker says: the gloss itself is "exact", gloss* is
\* "fingerspell", gloss? is "unknown"
MarkerKind(gloss, marker) ==
    IF marker = gloss THEN "exact"
    ELSE IF marker = gloss \o "*" THEN "fingerspell" ELSE "unknown"

\* C21: the validity marker returned for a gloss names the resource its frames
\* were produced from: exact exactly when they came from the gloss's own
\* gesture, fingerspell exactly when the fingerspell fallback was taken and
\* unknown exactly when the unknown fallback was taken, also when the gesture
\* index is reloaded while the sequence is processed.
C21_MarkerTellsResource ==
    run.op = "process" =>
       \A i \in 1..Len(run.valid_glosses) :
          MarkerKind(run.gloss_sequence[i], run.valid_glosses[i]) = run.used[i]

\* ------------------------ generate_keypoints while the library is reloaded
FramePool == {"HELLO", "AI", "XYZZY"}

FrameNext ==
    \/ \E gloss \in FramePool, frames \in 0..(MaxFrames + 1), use_fallback \in BOOLEAN :
          CallGenerateKeypoints(gloss, frames, use_fallback)
    \/ GkCheck
    \/ GkFallback
    \/ GkFrame
    \/ GkIdleFrames
    \/ GkReturn
    \/ ReloadStart
    \/ ReloadFile
    \/ ReloadEnd

FrameSpec == GenInit /\ [][FrameNext]_vars

\* the pose of frame f of the gesture the store defines under a name
StoredPose(name, f) ==
    LET gesture == LoadAll(<<>>, store)[upper(name)]
    IN  PoseAt(gesture, IF gesture.frames <= 1 THEN Zero
                        ELSE Frac(f, gesture.frames - 1))

\* C28: when the gesture is removed from the index (by a concurrent reload)
\* while generate_keypoints produces its frames, the call is not aborted: it
\* returns exactly the requested number of frames, every frame is the pose
\* interpolated from the gesture or the idle pose, and the idle ones are the
\* frames whose interpolation failed.
C28_FailedFramesIdle ==
    run.op = "generate" =>
       /\ run.pc = "done" => Len(run.sequence) = run.frames
       /\ \A i \in 1..Len(run.found) :
             /\ i <= Len(run.sequence)
             /\ run.sequence[i] = IF run.found[i] THEN StoredPose(run.name, i - 1)
                                  ELSE idle

\* HELLO is removed after the first frame and is back for the last
C28_Witness ==
    /\ run.op = "generate"
    /\ run.pc = "done"
    /\ run.gloss = "HELLO"
    /\ run.frames = MaxFrames + 1
    /\ Len(run.found) = run.frames
    /\ run.found[1]
    /\ ~run.found[2]
    /\ run.found[run.frames]
    /\ run.sequence[1]["RIGHT_WRIST"] = Pt(55, 40)
    /\ run.sequence[2] = idle
    /\ run.sequence[run.frames] # idle

\* ------------------------------------------ the compositor, any clip list
MaxClips == 3        \* clips handed to the compositor

CachePaths == {path \in Paths : path[2] = "mp4"}

\* every cache directory of clips that are there or not
ClipDirs == [CachePaths -> {NoFile, File(1, 0, TRUE)}]

ClipLists == UNION {[1..n -> CachePaths] : n \in 0..MaxClips}

CompositeInit ==
    /\ \E d \in ClipDirs :
          fs = [path \in Paths |-> IF path \in CachePaths THEN d[path] ELSE NoFile]
    /\ clock = 0
    /\ yt_dlp_available = TRUE
    /\ pc = [p \in Callers |-> "idle"]
    /\ frame = [p \in Callers |-> NoFrame]
    /\ ret = [p \in Callers |-> Pending]
    /\ obs = [p \in Callers |-> NoObs]
    /\ MapperIdle
    /\ StickIdle
    /\ PipelineIdle

CompositeNext ==
    \E video_paths \in ClipLists, loadable \in SUBSET CachePaths, writes \in BOOLEAN :
       CompositeVideos(video_paths, loadable, writes)

CompositeSpec == CompositeInit /\ [][CompositeNext]_vars

\* the positions of the clips of the call that are there and load
ValidClips ==
    {i \in 1..Len(wl.video_paths) :
        fs[wl.video_paths[i]].exists /\ wl.video_paths[i] \in wl.loadable}

\* C24: whenever exactly one valid clip remains for the compositor (a list of
\* one clip, or a longer list whose other clips all fail to load),
\* composite_videos returns that clip's own path unchanged and writes no new
\* output file.
C24_OneClipReturnedAsIs ==
    (wl.pc = "done" /\ wl.op = "composite" /\ Cardinality(ValidClips) = 1) =>
       /\ \E i \in ValidClips : wl.output.ret = RetPath(wl.video_paths[i])
       /\ ~wl.output.written

\* C25: composite_videos returns no output whenever no clip loads: for the
\* empty list and for a list of any length, 1 included, whose files are all
\* missing or unloadable.
C25_NoClipNoOutput ==
    (wl.pc = "done" /\ wl.op = "composite" /\ ValidClips = {}) =>
       wl.output.ret = RetNone

\* ------------------------------------------------ the video path, any catalog
\* catalogs of WATER: up to MaxCands candidates, video_id the catalog position
WlCatalogs ==
    UNION {{[i \in 1..n |-> [source |-> src[i], video_id |-> i]] :
               src \in [1..n -> {"signschool", NoSource}]} : n \in 0..MaxCands}

WlSequences == UNION {[1..n -> {"WATER", "XYZZY"}] : n \in 0..MaxGlosses}

MaxBody == 1         \* largest body a server sends to the video path, in GB

WlInit ==
    /\ fs = [path \in Paths |-> NoFile]
    /\ clock = MaxClock
    /\ yt_dlp_available \in BOOLEAN
    /\ pc = [p \in Callers |-> "idle"]
    /\ frame = [p \in Callers |-> NoFrame]
    /\ ret = [p \in Callers |-> Pending]
    /\ obs = [p \in Callers |-> NoObs]
    /\ videos \in WlCatalogs
    /\ query = ""
    /\ best = <<>>
    /\ alts = NoAlts
    /\ StickIdle
    /\ PipelineIdle

\* One request at a time: process_with_wlasl is called once, from an empty
\* cache, and its loader is caller 1.  The servers send bodies of at most
\* MaxBody GB, so the cache stays below the mark that starts a sweep.
WlNext ==
    \/ \E gloss_sequence \in WlSequences, loadable \in SUBSET CachePaths :
          CallProcessWithWlasl(gloss_sequence, loadable)
    \/ WlDownload
    \/ DlCheck(1)
    \/ DlSize(1)
    \/ Dispatch(1)
    \/ YtStart(1)
    \/ YtSuccess(1)
    \/ YtNonZero(1)
    \/ YtRaises(1)
    \/ HttpRequestFails(1)
    \/ HttpBadLength(1)
    \/ HttpOpen(1) /\ frame'[1].total_size <= MaxBody
    \/ HttpStream(1) /\ \A path \in Paths : fs'[path].size <= MaxBody
    \/ HttpVerify(1)
    \/ WlTake
    \/ WlComposite

WlSpec == WlInit /\ [][WlNext]_vars

\* the call has ended
WlDone == wl.pc = "done" /\ wl.op = "process"

\* the positions in video_paths of the downloaded clips that are there and load
UsableClips ==
    {j \in 1..Len(wl.video_paths) :
        fs[wl.video_paths[j]].exists /\ wl.video_paths[j] \in wl.loadable}

\* the positions in video_paths of the clips shown by the output returned
RenderedClips ==
    IF Len(wl.video_paths) = 1 THEN UsableClips
    ELSE {wl.output.clips[n] : n \in 1..Len(wl.output.clips)}

\* C22: the gloss list the video path returns is the list of glosses rendered:
\* a subsequence of the input gloss sequence, in input order, that holds a
\* gloss exactly when a clip for it is part of the composited output (a gloss
\* whose clip was dropped at any stage, by the compositor too, is not listed).
C22_ListedIffRendered ==
    (WlDone /\ wl.output.ret.tag = "path") =>
       LET listed == wl.downloaded_glosses
           at == wl.downloaded_at
       IN  /\ Len(at) = Len(listed)
           /\ \A j \in 1..Len(listed) : wl.gloss_sequence[at[j]] = listed[j]
           /\ \A j, n \in 1..Len(listed) : j < n => at[j] < at[n]
           /\ \A j \in 1..Len(listed) : j \in RenderedClips

\* C23: the only failure the video path exposes is zero usable resources over
\* the whole sequence: whenever at least one gloss has a clip that was
\* resolved, downloaded and loadable, the call returns an output and does not
\* raise; missing glosses, exhausted retries and unloadable clips are absorbed.
C23_RaisesOnlyWithNothing ==
    (WlDone /\ UsableClips # {}) => wl.output.ret # Raised

\* C29: glosses are handled in input order and the ranked candidates of a
\* gloss (at most 3) are tried strictly in ranking order: candidate i+1 only
\* after candidate i returned unavailable, none after the first success; a
\* gloss whose candidates all fail is skipped and the glosses after it are
\* still processed.
C29_CandidatesInOrder ==
    wl.op = "process" =>
       LET cands == wl.video_candidates
           log == wl.attempts
           tried(k) == {log[j].i : j \in {n \in 1..Len(log) : log[n].k = k}}
           won(k) == \E j \in 1..Len(log) : log[j].k = k /\ log[j].ret = "path"
       IN  /\ \A k \in 1..Len(cands) :
                 /\ Len(cands[k].video_options) <= 3
                 /\ \A n \in 1..(k - 1) : cands[n].at < cands[k].at
           /\ log # <<>> => (log[1].k = 1 /\ log[1].i = 1)
           /\ \A j \in 1..(Len(log) - 1) :
                 \/ /\ log[j].ret = "None"
                    /\ log[j + 1].k = log[j].k
                    /\ log[j + 1].i = log[j].i + 1
                 \/ /\ log[j].ret = "path" \/ log[j].i = Len(cands[log[j].k].video_options)
                    /\ log[j].ret # "raised"
                    /\ log[j + 1].k = log[j].k + 1
                    /\ log[j + 1].i = 1
           /\ wl.pc = "done" =>
                 \A k \in 1..Len(cands) :
                    won(k) \/ tried(k) = 1..Len(cands[k].video_options)

\* ------------------------------------------- two callers, one cache directory
\* Caller 2 downloads a direct-link video chunk by chunk while caller 1 asks for
\* videos: cache hits, and download_video up to the point where its own
\* download would start.  The directory holds the clip of video NumIds, whole,
\* or nothing; the server sends caller 2 bodies of at most RaceBody GB.
RaceBody == 2        \* largest body the server sends caller 2, in GB

RaceInit ==
    /\ \E file \in {NoFile, File(MaxFileSize, 0, TRUE)} :
          fs = [path \in Paths |-> IF path = _get_cache_path(NumIds) THEN file ELSE NoFile]
    /\ clock = 0
    /\ yt_dlp_available = TRUE
    /\ pc = [p \in Callers |-> "idle"]
    /\ frame = [p \in Callers |-> NoFrame]
    /\ ret = [p \in Callers |-> Pending]
    /\ obs = [p \in Callers |-> NoObs]
    /\ MapperIdle
    /\ StickIdle
    /\ PipelineIdle

RaceNext ==
    \/ \E video_id \in Ids : CallGetVideo(1, video_id, catalog_url(video_id), FALSE)
    \/ \E video_id \in Ids : CallDownloadVideo(1, video_id, catalog_url(video_id))
    \/ GvCheck(1)
    \/ GvLocal(1)
    \/ DlCheck(1)
    \/ DlSize(1)
    \/ CleanupList(1)
    \/ CleanupLoop(1)
    \/ Dispatch(1)
    \/ YtStart(1)
    \/ YtSuccess(1)
    \/ Finish(1)
    \/ \E video_id \in Ids \ {1, NumIds} :
          CallDownloadVideo(2, video_id, catalog_url(video_id))
    \/ DlCheck(2)
    \/ DlSize(2)
    \/ Dispatch(2)
    \/ HttpOpen(2) /\ frame'[2].total_size <= RaceBody
    \/ HttpChunk(2) /\ fs'[CachePathOf(2)].size <= RaceBody
    \/ /\ HttpStream(2)
       /\ fs'[CachePathOf(2)].size <= RaceBody
       /\ path_exists(CachePathOf(2)) => fs'[CachePathOf(2)].size >= fs[CachePathOf(2)].size
    \/ HttpVerify(2)
    \/ Finish(2)

RaceSpec == RaceInit /\ [][RaceNext]_vars

\* C26: in every interleaving of concurrent get/download calls on one cache
\* directory, the eviction sweep of one caller never removes the file another
\* caller's download is writing at that moment.
C26_SweepSparesOpenFile ==
    [][\A p, q \in Callers :
          (p # q /\ pc[p] = "cleanup_loop" /\ pc[q] = "http_stream"
                 /\ fs[CachePathOf(q)].exists) =>
             fs'[CachePathOf(q)].exists]_vars

\* C27: a caller whose get_video reports a cache hit for an identifier while
\* another caller's download of that identifier is in flight (or is later found
\* short and deleted) never holds a path to a file that is incomplete or absent.
C27_HitIsWholeFile ==
    \A p, q \in Callers :
       (/\ p # q
        /\ pc[p] = "done"
        /\ obs[p].entry = "get_video"
        /\ ~obs[p].dispatched
        /\ ret[p].tag = "path"
        /\ pc[q] \notin {"idle", "done"}
        /\ frame[q].video_id = frame[p].video_id) =>
          /\ fs[ret[p].path].exists
          /\ fs[ret[p].path].full

====
